---------------------------- MODULE Spec2Model ----------------------------
(***************************************************************************)
(* A model of the cuckoo filter of src/cuckoo.go.                          *)
(*                                                                         *)
(* The filter is built by newFilter with the murmur3 hash seeded with      *)
(* 59053.  Items are byte sequences; a fingerprint is a uint16; a hash     *)
(* value and the occupancy counter are uint32.  A uint32 is kept as a      *)
(* record of two 16-bit limbs [hi, lo] (value hi * 2^16 + lo), so that the *)
(* 32-bit digests and the wrap-around of the counter keep their width.     *)
(*                                                                         *)
(* math/rand is a nondeterministic choice: the starting bucket of the      *)
(* eviction loop and the slot of every swap range over all their values.   *)
(***************************************************************************)
EXTENDS Integers, Sequences, FiniteSets, Bags, TLC

(***************************************************************************)
(* Bounds of the model.  The filter has 2^LogBuckets buckets of bucketSize *)
(* slots and gives up an insertion after maxKicks swaps (the program's     *)
(* defaults, 4 slots and 500 kicks, scaled down); a run has at most MaxOps *)
(* calls.                                                                  *)
(***************************************************************************)
LogBuckets == 1
bucketSize == 2
maxKicks == 3
MaxOps == 4

totalBuckets == 2 ^ LogBuckets

emptyFingerprint == 0

(***************************************************************************)
(* uint32 arithmetic on 16-bit limbs.                                      *)
(***************************************************************************)
Limb == 2 ^ 16

U32(hi, lo) == [hi |-> hi, lo |-> lo]

U32Of(n) == U32(n \div Limb, n % Limb)

U32Inc(c) ==
    IF c.lo = Limb - 1 THEN U32((c.hi + 1) % Limb, 0) ELSE U32(c.hi, c.lo + 1)

U32Dec(c) ==
    IF c.lo = 0 THEN U32((c.hi + Limb - 1) % Limb, Limb - 1) ELSE U32(c.hi, c.lo - 1)

\* c % n for 0 < n < 2^15 (x is the value of c)
U32Mod(c, n) == CHOOSE r \in {(((x.hi % n) * (Limb % n)) + x.lo) % n : x \in {c}} : TRUE

\* the bitwise exclusive or of the n-bit numbers a and b
XorBits(a, b, n) ==
    LET bit[i \in 0 .. n] ==
            IF i = n THEN 0
            ELSE (((a \div 2 ^ i) + (b \div 2 ^ i)) % 2) * 2 ^ i + bit[i + 1]
    IN  bit[0]

\* a ^ b (x and y are the values of a and b)
U32Xor(a, b) ==
    CHOOSE r \in {U32(XorBits(x.hi, y.hi, 16), XorBits(x.lo, y.lo, 16)) :
                    x \in {a}, y \in {b}} : TRUE

\* c <= n for a natural number n < 2^16
U32LeqNat(c, n) == c.hi = 0 /\ c.lo <= n

\* a + b
U32Add(a, b) ==
    CHOOSE r \in {U32((x.hi + y.hi + ((x.lo + y.lo) \div Limb)) % Limb, (x.lo + y.lo) % Limb) :
                    x \in {a}, y \in {b}} : TRUE

\* a * b, by the four bytes of a and of b (x and y are the values of a and b)
U32Mul(a, b) ==
    CHOOSE r \in {
        LET a0 == x.lo % 256
            a1 == x.lo \div 256
            a2 == x.hi % 256
            a3 == x.hi \div 256
            b0 == y.lo % 256
            b1 == y.lo \div 256
            b2 == y.hi % 256
            b3 == y.hi \div 256
            c0 == a0 * b0
            c1 == a0 * b1 + a1 * b0
            c2 == a0 * b2 + a1 * b1 + a2 * b0
            c3 == a0 * b3 + a1 * b2 + a2 * b1 + a3 * b0
            low == c0 + (c1 % 256) * 256
        IN  U32(((low \div Limb) + (c1 \div 256) + c2 + (c3 % 256) * 256) % Limb, low % Limb)
        : x \in {a}, y \in {b}} : TRUE

\* a rotated left by r bits, 0 < r < 16
U32Rotl(a, r) ==
    CHOOSE v \in {U32(((x.hi * 2 ^ r) % Limb) + (x.lo \div 2 ^ (16 - r)),
                      ((x.lo * 2 ^ r) % Limb) + (x.hi \div 2 ^ (16 - r))) : x \in {a}} : TRUE

\* a >> r, 0 < r <= 16
U32Shr(a, r) ==
    CHOOSE v \in {U32(x.hi \div 2 ^ r, ((x.hi % 2 ^ r) * 2 ^ (16 - r)) + (x.lo \div 2 ^ r)) :
                    x \in {a}} : TRUE

(***************************************************************************)
(* The items of the runs: the empty item, the 1-byte item "g", the 2-byte  *)
(* items "ab" and "go" and a 3-byte item whose murmur3 digest has its      *)
(* upper 16 bits zero (its fingerprint is the empty sentinel).  With two   *)
(* buckets, "g", "go" and the 3-byte item have bucket 0 as both their      *)
(* candidates, and "ab" has buckets 0 and 1.                               *)
(***************************************************************************)
ItemG == <<103>>
ItemAB == <<97, 98>>
ItemGO == <<103, 111>>
ItemZ == <<0, 126, 202>>
Items == {<< >>, ItemG, ItemAB, ItemGO, ItemZ}

(***************************************************************************)
(* murmur3.New32WithSeed(seed): the 32-bit MurmurHash3 of the byte         *)
(* sequence x.  Murmur3Sum computes it from whatever was written to the    *)
(* hash since its last Reset; Murmur3 is its value on the byte sequences   *)
(* that a call hashes when no other call writes to the hash in between     *)
(* (the items and the two bytes of their fingerprints).                    *)
(***************************************************************************)
seed == 59053

\* the mixing of one 32-bit word k of the input
Murmur3Mix(k) ==
    U32Mul(U32Rotl(U32Mul(k, U32(52382, 11601)), 15), U32(7047, 13715))

\* the state after the 4-byte blocks of x from byte p on
RECURSIVE Murmur3Blocks(_, _, _)
Murmur3Blocks(x, p, h) ==
    IF p + 3 > Len(x) THEN h
    ELSE Murmur3Blocks(x, p + 4,
            U32Add(U32Mul(U32Rotl(U32Xor(h, Murmur3Mix(U32(x[p + 3] * 256 + x[p + 2],
                                                             x[p + 1] * 256 + x[p]))), 13),
                          U32Of(5)),
                   U32(58964, 27492)))

\* the state after the last Len(x) % 4 bytes
Murmur3Tail(x, h) ==
    LET p == Len(x) - (Len(x) % 4)
        n == Len(x) % 4
    IN  IF n = 0 THEN h
        ELSE U32Xor(h, Murmur3Mix(U32(IF n = 3 THEN x[p + 3] ELSE 0,
                                      (IF n >= 2 THEN x[p + 2] * 256 ELSE 0) + x[p + 1])))

\* the final avalanche
Murmur3Fmix(h) ==
    LET h1 == U32Mul(U32Xor(h, U32Shr(h, 16)), U32(34283, 51819))
        h2 == U32Mul(U32Xor(h1, U32Shr(h1, 13)), U32(49842, 44597))
    IN  U32Xor(h2, U32Shr(h2, 16))

Murmur3Sum(x) ==
    Murmur3Fmix(U32Xor(Murmur3Tail(x, Murmur3Blocks(x, 1, U32Of(seed))), U32Of(Len(x))))

Murmur3(x) ==
    CASE x = << >>          -> U32(10737, 62945)   \* 0x29f1f5e1
      [] x = <<103>>        -> U32(48693, 48078)   \* 0xbe35bbce
      [] x = <<0, 103>>     -> U32(25864, 38720)   \* 0x65089740
      [] x = <<97, 98>>     -> U32(17275, 14492)   \* 0x437b389c
      [] x = <<103, 111>>   -> U32(893, 25504)     \* 0x037d63a0
      [] x = <<0, 126, 202>> -> U32(0, 28204)      \* 0x00006e2c
      [] x = <<0, 0>>       -> U32(35755, 10150)   \* 0x8bab27a6
      [] x = <<0, 126>>     -> U32(6821, 7412)     \* 0x1aa51cf4
      [] x = <<101, 8>>     -> U32(64476, 46236)   \* 0xfbdcb49c
      [] x = <<67, 123>>    -> U32(54037, 41675)   \* 0xd315a2cb
      [] x = <<3, 125>>     -> U32(56340, 35262)   \* 0xdc1489be
      [] x = <<41, 241>>    -> U32(4984, 34051)    \* 0x13788503
      [] x = <<190, 53>>    -> U32(12603, 31325)   \* 0x313b7a5d
      [] x = <<139, 171>>   -> U32(34140, 29529)   \* 0x855c7359

VARIABLES
    buckets,    \* Filter.buckets: bucket index -> slot -> fingerprint
    count,      \* Filter.count (uint32)
    last,       \* the last call: operation, item, result and what it did
    nops,       \* number of calls made
    ever,       \* items ever passed to Insert or InsertUnique
    pure,       \* the run so far holds only Insert calls that returned true
    nIns,       \* calls that performed a successful insertion
    nDel,       \* Delete calls that returned true
    failed,     \* some call returned false
    uniq,       \* the current run of consecutive InsertUnique calls
    twice,      \* progress of "insert x twice, delete x twice"
    run,        \* the Insert call in progress, when its steps are taken one by one
    made,       \* the sizes NewFilter derived from the requested count
    filters,    \* threads: filter -> its buckets, count, mu and the bytes in its hash
    tempBuf,    \* threads: the package-level buffer tempBytes
    thr         \* threads: thread -> the call it is in, its position and its locals

vars == <<buckets, count, last, nops, ever, pure, nIns, nDel, failed, uniq, twice, run,
          made, filters, tempBuf, thr>>

\* the state of the sizing and of the threads
aux == <<made, filters, tempBuf, thr>>

hist == <<ever, pure, nIns, nDel, failed, uniq, twice>>

----------------------------------------------------------------------------
(***************************************************************************)
(* Buckets.                                                                *)
(***************************************************************************)
initBuckets(tb, bs) == [i \in 0 .. tb - 1 |-> [j \in 1 .. bs |-> emptyFingerprint]]

\* the first slot of b that holds fp, or 0
FirstSlot(b, fp) ==
    IF \E j \in DOMAIN b : b[j] = fp
    THEN CHOOSE j \in DOMAIN b : b[j] = fp /\ \A i \in DOMAIN b : b[i] = fp => j <= i
    ELSE 0

deleteFrom(b, fp) ==
    LET i == FirstSlot(b, fp)
    IN  IF i = 0 THEN [ok |-> FALSE, b |-> b]
        ELSE [ok |-> TRUE, b |-> [b EXCEPT ![i] = emptyFingerprint]]

containsIn(b, fp) == \E i \in DOMAIN b : b[i] = fp

addToBucket(b, fp) ==
    LET j == FirstSlot(b, emptyFingerprint)
    IN  IF j = 0 THEN [ok |-> FALSE, b |-> b]
        ELSE [ok |-> TRUE, b |-> [b EXCEPT ![j] = fp]]

(***************************************************************************)
(* Hashing, fingerprints and indices.                                      *)
(***************************************************************************)
hashOf(x) ==
    LET h == Murmur3(x)
    IN  [h |-> h,
         bytes |-> <<h.hi \div 256, h.hi % 256, h.lo \div 256, h.lo % 256>>]

fingerprintOf(xb) ==
    [fp |-> xb[1] * 256 + xb[2], fph |-> hashOf(SubSeq(xb, 1, 2)).h]

indicesOf(xh, fph, tb) ==
    LET i1 == U32Mod(xh, tb)
    IN  [i1 |-> i1, i2 |-> U32Mod(U32Xor(U32Of(i1), fph), tb)]

\* Locate with the fingerprint taken from the bytes of the item
LocateOfItem(x) ==
    LET xhb == hashOf(x)
        f == fingerprintOf(x)
        ix == indicesOf(xhb.h, f.fph, totalBuckets)
    IN  [fp |-> f.fp, i1 |-> ix.i1, i2 |-> ix.i2]

\* fingerprint and candidate buckets of a checked item, as insert, lookup
\* and deleteItem compute them in their first three lines
Locate(x) ==
    LET xhb == hashOf(x)
        f == fingerprintOf(xhb.bytes)
        ix == indicesOf(xhb.h, f.fph, totalBuckets)
    IN  [fp |-> f.fp, i1 |-> ix.i1, i2 |-> ix.i2]

\* check without its test of the empty item
checkNoEmptyTest(x) ==
    IF Len(x) = 1 THEN [x |-> <<0, x[1]>>, ok |-> TRUE]
    ELSE [x |-> x, ok |-> TRUE]

check(x) ==
    IF Len(x) = 0 THEN [x |-> << >>, ok |-> FALSE]
    ELSE IF Len(x) = 1 THEN [x |-> <<0, x[1]>>, ok |-> TRUE]
    ELSE [x |-> x, ok |-> TRUE]

(***************************************************************************)
(* The eviction step.  k is the slot rand.Intn(len(b)) picks.              *)
(***************************************************************************)
\* the last two lines of replaceItem: the index paired with i by the hash of
\* the two bytes found in tempBytes
alternateOf(i, bytes) ==
    LET rfph == hashOf(bytes).h
    IN  U32Mod(U32Xor(U32Of(i), rfph), totalBuckets)

replaceItem(bk, i, fp, k) ==
    LET rfp == bk[i][k]
        tempBytes == <<fp \div 256, fp % 256>>
    IN  [j |-> alternateOf(i, tempBytes),
         rfp |-> rfp,
         buckets |-> [bk EXCEPT ![i][k] = fp],
         tempBytes |-> tempBytes]

(***************************************************************************)
(* The loop of insert from iteration k on, with fp in hand and ri the      *)
(* bucket to swap it into: the set of its outcomes over the slots  *)
(* rand may pick.  An outcome holds the result, the table, the number of   *)
(* swaps made, the fingerprint in hand at the return and whether the last  *)
(* addToBucket placed it.                                                  *)
(***************************************************************************)
\* the condition of the loop with <= for <
kickAgainInclusive(k) == k <= maxKicks

\* the condition of the loop: k < f.maxKicks
kickAgain(k) == k < maxKicks

RECURSIVE kickLoop(_, _, _, _)
kickLoop(bk, ri, fp, k) ==
    IF ~kickAgain(k)
    THEN {[ok |-> FALSE, placed |-> FALSE, buckets |-> bk, swaps |-> k, hand |-> fp]}
    ELSE UNION {
        LET r == replaceItem(bk, ri, fp, s)
            a == addToBucket(r.buckets[r.j], r.rfp)
        IN  IF a.ok
            THEN {[ok |-> TRUE, placed |-> TRUE,
                   buckets |-> [r.buckets EXCEPT ![r.j] = a.b],
                   swaps |-> k + 1, hand |-> r.rfp]}
            ELSE kickLoop(r.buckets, r.j, r.rfp, k + 1)
        : s \in 1 .. bucketSize }

\* insert with a deferred count++ that does not test ok
insertCountsAlways(bk, cnt, x) ==
    LET l == Locate(x)
        a1 == addToBucket(bk[l.i1], l.fp)
        a2 == addToBucket(bk[l.i2], l.fp)
        outs == IF a1.ok
                THEN {[ok |-> TRUE, placed |-> TRUE,
                       buckets |-> [bk EXCEPT ![l.i1] = a1.b],
                       swaps |-> 0, hand |-> l.fp]}
                ELSE IF a2.ok
                THEN {[ok |-> TRUE, placed |-> TRUE,
                       buckets |-> [bk EXCEPT ![l.i2] = a2.b],
                       swaps |-> 0, hand |-> l.fp]}
                ELSE UNION {kickLoop(bk, ri, l.fp, 0) : ri \in {l.i1, l.i2}}
    IN  {[ok |-> o.ok, placed |-> o.placed, buckets |-> o.buckets,
          count |-> U32Inc(cnt),
          swaps |-> o.swaps, hand |-> o.hand] : o \in outs}

\* insert on the table bk and the counter cnt: the set of its outcomes, the
\* deferred count++ included
insert(bk, cnt, x) ==
    LET l == Locate(x)
        a1 == addToBucket(bk[l.i1], l.fp)
        a2 == addToBucket(bk[l.i2], l.fp)
        outs == IF a1.ok
                THEN {[ok |-> TRUE, placed |-> TRUE,
                       buckets |-> [bk EXCEPT ![l.i1] = a1.b],
                       swaps |-> 0, hand |-> l.fp]}
                ELSE IF a2.ok
                THEN {[ok |-> TRUE, placed |-> TRUE,
                       buckets |-> [bk EXCEPT ![l.i2] = a2.b],
                       swaps |-> 0, hand |-> l.fp]}
                ELSE UNION {kickLoop(bk, ri, l.fp, 0) : ri \in {l.i1, l.i2}}
    IN  {[ok |-> o.ok, placed |-> o.placed, buckets |-> o.buckets,
          count |-> IF o.ok THEN U32Inc(cnt) ELSE cnt,
          swaps |-> o.swaps, hand |-> o.hand] : o \in outs}

lookup(bk, x) ==
    LET l == Locate(x)
    IN  containsIn(bk[l.i1], l.fp) \/ containsIn(bk[l.i2], l.fp)

\* deleteItem, the deferred count-- included
deleteItem(bk, cnt, x) ==
    CHOOSE r \in {
        LET d1 == deleteFrom(bk[l.i1], l.fp)
            d2 == deleteFrom(bk[l.i2], l.fp)
        IN  IF d1.ok
            THEN [ok |-> TRUE, buckets |-> [bk EXCEPT ![l.i1] = d1.b], count |-> U32Dec(cnt)]
            ELSE IF d2.ok
            THEN [ok |-> TRUE, buckets |-> [bk EXCEPT ![l.i2] = d2.b], count |-> U32Dec(cnt)]
            ELSE [ok |-> FALSE, buckets |-> bk, count |-> cnt]
        : l \in {Locate(x)}} : TRUE

Count == count

\* LoadFactor as the fraction num / den
LoadFactor == [num |-> count, den |-> bucketSize * totalBuckets]

----------------------------------------------------------------------------
(***************************************************************************)
(* The calls.  Each action is one whole call on the filter by one thread.  *)
(* last.lock tells which modes of the mutex the call acquired.             *)
(***************************************************************************)
NoItem == <<0>>
NoRun == [x |-> NoItem, base |-> U32Of(0)]
NoTwice == [x |-> NoItem, n |-> 0]

Call(op, x, ret, lock, swaps, hand, placed) ==
    [op |-> op, x |-> x, ret |-> ret, lock |-> lock, swaps |-> swaps, hand |-> hand,
     placed |-> placed]

Idle == [pc |-> "idle", x |-> NoItem, fp |-> emptyFingerprint, ri |-> 0, k |-> 0]

(***************************************************************************)
(* Sizing.  NewFilter derives the number of buckets from the requested     *)
(* count; made records the request v, nextPowerOf2(v) and the sizes passed *)
(* to newFilter.                                                           *)
(***************************************************************************)
defaultBucketSize == 4

\* 1 << i as a uint32, 0 <= i < 32
U32Shl1(i) == IF i < 16 THEN U32(0, 2 ^ i) ELSE U32(2 ^ (i - 16), 0)

\* a >= b
U32Geq(a, b) == a.hi > b.hi \/ (a.hi = b.hi /\ a.lo >= b.lo)

\* c / d for a natural number 0 < d < 2^15
U32Div(c, d) == U32(c.hi \div d, ((c.hi % d) * Limb + c.lo) \div d)

\* the loop of nextPowerOf2 from i on, n being the value of the last round
RECURSIVE nextPowerOf2Loop(_, _, _)
nextPowerOf2Loop(v, i, n) ==
    IF i < 32
    THEN IF U32Geq(U32Shl1(i), v) THEN U32Shl1(i)
         ELSE nextPowerOf2Loop(v, i + 1, U32Shl1(i))
    ELSE n

nextPowerOf2(v) == nextPowerOf2Loop(v, 2, U32Of(0))

NotMade == [called |-> FALSE, v |-> U32Of(0), n |-> U32Of(0),
            totalBuckets |-> U32Of(0), bucketSize |-> 0]

\* the requested counts: around the small powers of two, 2^16, 2^31 and 2^32
RequestHi == {0, 1, 2, 2 ^ 15 - 1, 2 ^ 15, 2 ^ 15 + 1, Limb - 1}
RequestLo == (0 .. 9) \cup {15, 16, 17, 2 ^ 15, Limb - 2, Limb - 1}
Requests == {U32(h, l) : h \in RequestHi, l \in RequestLo}

(***************************************************************************)
(* Threads.  Every filter has its own table, counter, mutex and hash       *)
(* instance; tempBytes is one buffer of the package.  A sync.RWMutex is    *)
(* held by one writer (w) or by a set of readers (r).  The hash instance   *)
(* is the sequence of bytes written to it since its last Reset.            *)
(***************************************************************************)
Threads == {1, 2}
Filters == {1, 2}
None == 0

newFilter(tb, bs) ==
    [buckets |-> initBuckets(tb, bs),
     count |-> U32Of(0),
     mu |-> [w |-> None, r |-> {}],
     hash |-> << >>]

\* a thread outside every call; ret is the result of its last call
IdleThread ==
    [pc |-> "idle", f |-> 1, op |-> "none", x |-> NoItem, ret |-> FALSE,
     xh |-> U32Of(0), fp |-> emptyFingerprint, fph |-> U32Of(0),
     i |-> 0, rfp |-> emptyFingerprint, k |-> 0, saw |-> "none",
     val |-> [num |-> U32Of(0), den |-> 1]]

\* the thread after the return of the call of c: its locals are gone
Returned(c) ==
    [IdleThread EXCEPT !.f = c.f, !.op = c.op, !.x = c.x, !.ret = c.ret, !.saw = c.saw,
                       !.val = c.val]

\* Unlock that leaves the mutex held
UnlockKeeps(m, t) == m

\* RUnlock that leaves the reader in
RUnlockKeeps(m, t) == m

\* RLock that does not wait for the writer
CanRLockAlways(m) == TRUE

\* sync.RWMutex
CanLock(m) == m.w = None /\ m.r = {}
Lock(m, t) == [m EXCEPT !.w = t]
Unlock(m, t) == [m EXCEPT !.w = None]

CanRLock(m) == m.w = None

RLock(m, t) == [m EXCEPT !.r = @ \cup {t}]
RUnlock(m, t) == [m EXCEPT !.r = @ \ {t}]

Init ==
    /\ made = NotMade
    /\ filters = [f \in Filters |-> newFilter(totalBuckets, bucketSize)]
    /\ tempBuf = <<0, 0>>
    /\ thr = [t \in Threads |-> IdleThread]
    /\ buckets = initBuckets(totalBuckets, bucketSize)
    /\ count = U32Of(0)
    /\ last = Call("new", << >>, FALSE, {}, 0, emptyFingerprint, FALSE)
    /\ run = Idle
    /\ nops = 0
    /\ ever = {}
    /\ pure = TRUE
    /\ nIns = 0
    /\ nDel = 0
    /\ failed = FALSE
    /\ uniq = NoRun
    /\ twice = NoTwice

\* the call is rejected by check: nothing but the record of the call changes
Rejected(op, x) ==
    /\ last' = Call(op, x, FALSE, {}, 0, emptyFingerprint, FALSE)
    /\ UNCHANGED <<buckets, count, ever, nIns, nDel>>
    /\ failed' = (failed \/ op # "Lookup")
    /\ pure' = (pure /\ op = "Lookup")
    /\ uniq' = NoRun
    /\ twice' = NoTwice

Insert(x) ==
    /\ run.pc = "idle"
    /\ nops < MaxOps
    /\ nops' = nops + 1
    /\ UNCHANGED <<run, aux>>
    /\ LET c == check(x)
       IN  IF ~c.ok THEN Rejected("Insert", x)
           ELSE \E o \in insert(buckets, count, c.x) :
                /\ buckets' = o.buckets
                /\ count' = o.count
                /\ last' = Call("Insert", x, o.ok, {"w"}, o.swaps, o.hand, o.placed)
                /\ ever' = ever \cup {c.x}
                /\ pure' = (pure /\ o.ok)
                /\ nIns' = IF o.ok THEN nIns + 1 ELSE nIns
                /\ failed' = (failed \/ ~o.ok)
                /\ uniq' = NoRun
                /\ twice' = IF ~o.ok THEN NoTwice
                            ELSE IF twice = [x |-> c.x, n |-> 1]
                            THEN [x |-> c.x, n |-> 2]
                            ELSE IF c.x \notin ever THEN [x |-> c.x, n |-> 1]
                            ELSE NoTwice
                /\ UNCHANGED nDel

InsertUnique(x) ==
    /\ run.pc = "idle"
    /\ nops < MaxOps
    /\ nops' = nops + 1
    /\ UNCHANGED <<run, aux>>
    /\ LET c == check(x)
       IN  IF ~c.ok THEN Rejected("InsertUnique", x)
           ELSE /\ ever' = ever \cup {c.x}
                /\ pure' = FALSE
                /\ twice' = NoTwice
                /\ uniq' = IF uniq.x = c.x THEN uniq ELSE [x |-> c.x, base |-> count]
                /\ UNCHANGED nDel
                /\ IF lookup(buckets, c.x)
                   THEN /\ last' = Call("InsertUnique", x, TRUE, {"r"}, 0, emptyFingerprint, FALSE)
                        /\ UNCHANGED <<buckets, count, nIns, failed>>
                   ELSE \E o \in insert(buckets, count, c.x) :
                        /\ buckets' = o.buckets
                        /\ count' = o.count
                        /\ last' = Call("InsertUnique", x, o.ok, {"r", "w"}, o.swaps, o.hand, o.placed)
                        /\ nIns' = IF o.ok THEN nIns + 1 ELSE nIns
                        /\ failed' = (failed \/ ~o.ok)

Lookup(x) ==
    /\ run.pc = "idle"
    /\ nops < MaxOps
    /\ nops' = nops + 1
    /\ UNCHANGED <<run, aux>>
    /\ LET c == check(x)
       IN  IF ~c.ok THEN Rejected("Lookup", x)
           ELSE /\ last' = Call("Lookup", x, lookup(buckets, c.x), {"r"}, 0, emptyFingerprint, FALSE)
                /\ uniq' = NoRun
                /\ twice' = NoTwice
                /\ UNCHANGED <<buckets, count, ever, pure, nIns, nDel, failed>>

Delete(x) ==
    /\ run.pc = "idle"
    /\ nops < MaxOps
    /\ nops' = nops + 1
    /\ UNCHANGED <<run, aux>>
    /\ LET c == check(x)
       IN  IF ~c.ok THEN Rejected("Delete", x)
           ELSE LET d == deleteItem(buckets, count, c.x)
                IN  /\ buckets' = d.buckets
                    /\ count' = d.count
                    /\ last' = Call("Delete", x, d.ok, {"w"}, 0, emptyFingerprint, FALSE)
                    /\ pure' = FALSE
                    /\ nDel' = IF d.ok THEN nDel + 1 ELSE nDel
                    /\ failed' = (failed \/ ~d.ok)
                    /\ uniq' = NoRun
                    /\ twice' = IF twice.x = c.x /\ twice.n \in {2, 3}
                                THEN [x |-> c.x, n |-> twice.n + 1]
                                ELSE NoTwice
                    /\ UNCHANGED <<ever, nIns>>

Next ==
    \/ \E x \in Items : Insert(x)
    \/ \E x \in Items : InsertUnique(x)
    \/ \E x \in Items : Lookup(x)
    \/ \E x \in Items : Delete(x)

Spec == Init /\ [][Next]_vars

----------------------------------------------------------------------------
(***************************************************************************)
(* Insert taken step by step: the call up to the choice of the first       *)
(* bucket of the loop, then one iteration of the loop per step, then the   *)
(* return after the loop.  run.k is the loop's k, the number of swaps      *)
(* made; run.fp the fingerprint in hand; run.ri the bucket of the next     *)
(* swap.  Delete and Lookup are whole calls between two Inserts.           *)
(***************************************************************************)
BeginInsert(x) ==
    /\ run.pc = "idle"
    /\ nops < MaxOps
    /\ nops' = nops + 1
    /\ UNCHANGED <<hist, aux>>
    /\ LET c == check(x)
           l == Locate(c.x)
           a1 == addToBucket(buckets[l.i1], l.fp)
           a2 == addToBucket(buckets[l.i2], l.fp)
       IN  IF ~c.ok
           THEN /\ last' = Call("Insert", x, FALSE, {}, 0, emptyFingerprint, FALSE)
                /\ UNCHANGED <<buckets, count, run>>
           ELSE IF a1.ok \/ a2.ok
           THEN /\ buckets' = IF a1.ok THEN [buckets EXCEPT ![l.i1] = a1.b]
                                       ELSE [buckets EXCEPT ![l.i2] = a2.b]
                /\ count' = U32Inc(count)
                /\ last' = Call("Insert", x, TRUE, {"w"}, 0, l.fp, TRUE)
                /\ UNCHANGED run
           ELSE \E ri \in {l.i1, l.i2} :
                /\ run' = [pc |-> "loop", x |-> c.x, fp |-> l.fp, ri |-> ri, k |-> 0]
                /\ UNCHANGED <<buckets, count, last>>

KickStep ==
    /\ run.pc = "loop"
    /\ kickAgain(run.k)
    /\ UNCHANGED <<nops, hist, aux>>
    /\ \E s \in 1 .. bucketSize :
        \E r \in {replaceItem(buckets, run.ri, run.fp, s)} :
        \E a \in {addToBucket(r.buckets[r.j], r.rfp)} :
            IF a.ok
            THEN /\ buckets' = [r.buckets EXCEPT ![r.j] = a.b]
                 /\ count' = U32Inc(count)
                 /\ last' = Call("Insert", run.x, TRUE, {"w"}, run.k + 1, r.rfp, TRUE)
                 /\ run' = Idle
            ELSE /\ buckets' = r.buckets
                 /\ run' = [run EXCEPT !.ri = r.j, !.fp = r.rfp, !.k = run.k + 1]
                 /\ UNCHANGED <<count, last>>

GiveUp ==
    /\ run.pc = "loop"
    /\ ~kickAgain(run.k)
    /\ last' = Call("Insert", run.x, FALSE, {"w"}, run.k, run.fp, FALSE)
    /\ run' = Idle
    /\ UNCHANGED <<buckets, count, nops, hist, aux>>

NextSteps ==
    \/ \E x \in Items : BeginInsert(x)
    \/ KickStep
    \/ GiveUp
    \/ \E x \in Items : Delete(x)
    \/ \E x \in Items : Lookup(x)

\* the thread inside Insert keeps running
SpecSteps == Init /\ [][NextSteps]_vars /\ WF_vars(KickStep \/ GiveUp)

----------------------------------------------------------------------------
(***************************************************************************)
(* The calls of concurrent threads, one access to shared state per step.   *)
(* thr[t].pc is the position of thread t:                                  *)
(*   rlock, look, write1, sum1, reset2, write2, sum2, scan, runlock        *)
(*       Lookup (also the one InsertUnique calls): RLock, the three calls  *)
(*       of hashOf on the item, the three of hashOf on the two bytes of    *)
(*       the fingerprint, the scan of the two buckets, RUnlock;            *)
(*   rlock, read, runlock      Count and LoadFactor;                       *)
(*   lock, begin, kick, kickhash, unlock                                   *)
(*       insert under the write lock: the hashing and the direct           *)
(*       placement, then per iteration the swap with the write of          *)
(*       tempBytes, and the hash of tempBytes with the placement;          *)
(*   lock, del, unlock          Delete.                                    *)
(* A writer holds the filter's lock exclusively and its hashing is taken   *)
(* with the step that uses the digest.  Readers share the hash instance of *)
(* the filter: THashReset, THashWrite, THashSum and TScan take lookup one  *)
(* access to it per step.  TLookup takes lookup as one step, for the runs  *)
(* that are about the mutex: its result is that of lookup when no other    *)
(* thread is inside lookup on the same filter, and any result when one is  *)
(* (the unsynchronised accesses to the hash instance are a data race).     *)
(***************************************************************************)
Ops == {"Insert", "InsertUnique", "Lookup", "Delete", "Count", "LoadFactor"}

ConcItems == {<< >>, ItemG, ItemAB}

\* the variables of the runs of one thread, but for the number of calls
seqRest == <<buckets, count, last, hist, run, made>>

\* thread t calls op(x) on filter f: check, and the call returns at once for
\* the empty item
Begin(t, f, op, x) ==
    /\ thr[t].pc = "idle"
    /\ LET c == IF op \in {"Count", "LoadFactor"} THEN [x |-> NoItem, ok |-> TRUE]
                ELSE check(x)
       IN  thr' = [thr EXCEPT ![t] =
                     [IdleThread EXCEPT
                        !.f = f, !.op = op, !.x = c.x,
                        !.pc = IF ~c.ok THEN "idle"
                               ELSE IF op \in {"Insert", "Delete"} THEN "lock"
                               ELSE "rlock"]]
    /\ UNCHANGED <<filters, tempBuf, seqRest>>

TRLock(t) ==
    /\ thr[t].pc = "rlock"
    /\ CanRLock(filters[thr[t].f].mu)
    /\ filters' = [filters EXCEPT ![thr[t].f].mu = RLock(@, t)]
    /\ thr' = [thr EXCEPT ![t].pc =
                  IF thr[t].op \in {"Count", "LoadFactor"} THEN "read" ELSE "look"]
    /\ UNCHANGED <<tempBuf, nops, seqRest>>

\* return f.count, or its quotient by the capacity
TRead(t) ==
    /\ thr[t].pc = "read"
    /\ thr' = [thr EXCEPT ![t].pc = "runlock",
                          ![t].val = [num |-> filters[thr[t].f].count,
                                      den |-> IF thr[t].op = "Count" THEN 1
                                              ELSE bucketSize * totalBuckets]]
    /\ UNCHANGED <<filters, tempBuf, nops, seqRest>>

\* the threads other than t inside lookup on the filter of t
OtherLookers(t) ==
    {u \in Threads \ {t} :
        /\ thr[u].f = thr[t].f
        /\ thr[u].pc \in {"look", "write1", "sum1", "reset2", "write2", "sum2", "scan",
                           "runlock"}
        /\ thr[u].op \in {"Lookup", "InsertUnique"}}

\* lookup as one step
TLookup(t) ==
    /\ thr[t].pc = "look"
    /\ UNCHANGED <<tempBuf, nops, seqRest>>
    /\ \E l \in {Locate(thr[t].x)} :
       \E r \in IF OtherLookers(t) = {}
                THEN {\/ containsIn(filters[thr[t].f].buckets[l.i1], l.fp)
                      \/ containsIn(filters[thr[t].f].buckets[l.i2], l.fp)}
                ELSE BOOLEAN :
          /\ thr' = [thr EXCEPT ![t].pc = "runlock", ![t].ret = r]
          /\ filters' = [filters EXCEPT ![thr[t].f].hash = <<l.fp \div 256, l.fp % 256>>]

\* hash.Reset()
THashReset(t) ==
    /\ thr[t].pc \in {"look", "reset2"}
    /\ filters' = [filters EXCEPT ![thr[t].f].hash = << >>]
    /\ thr' = [thr EXCEPT ![t].pc = IF thr[t].pc = "look" THEN "write1" ELSE "write2"]
    /\ UNCHANGED <<tempBuf, nops, seqRest>>

\* hash.Write(x), and in fingerprintOf hash.Write(xb[:2])
THashWrite(t) ==
    /\ thr[t].pc \in {"write1", "write2"}
    /\ filters' = [filters EXCEPT ![thr[t].f].hash =
                      @ \o (IF thr[t].pc = "write1" THEN thr[t].x
                            ELSE <<thr[t].xh.hi \div 256, thr[t].xh.hi % 256>>)]
    /\ thr' = [thr EXCEPT ![t].pc = IF thr[t].pc = "write1" THEN "sum1" ELSE "sum2"]
    /\ UNCHANGED <<tempBuf, nops, seqRest>>

\* h := hash.Sum32(); after the first, fp is the first two bytes of h
THashSum(t) ==
    /\ thr[t].pc \in {"sum1", "sum2"}
    /\ \E h \in {Murmur3Sum(filters[thr[t].f].hash)} :
          thr' = IF thr[t].pc = "sum1"
                 THEN [thr EXCEPT ![t].pc = "reset2", ![t].xh = h, ![t].fp = h.hi]
                 ELSE [thr EXCEPT ![t].pc = "scan", ![t].fph = h]
    /\ UNCHANGED <<filters, tempBuf, nops, seqRest>>

\* indicesOf and the two containsIn of lookup
TScan(t) ==
    /\ thr[t].pc = "scan"
    /\ \E ix \in {indicesOf(thr[t].xh, thr[t].fph, totalBuckets)} :
          thr' = [thr EXCEPT ![t].pc = "runlock",
                            ![t].ret = \/ containsIn(filters[thr[t].f].buckets[ix.i1], thr[t].fp)
                                       \/ containsIn(filters[thr[t].f].buckets[ix.i2], thr[t].fp)]
    /\ UNCHANGED <<filters, tempBuf, nops, seqRest>>

\* RUnlock; Lookup, Count and LoadFactor return, and InsertUnique returns
\* true or goes on to f.mu.Lock()
TRUnlock(t) ==
    /\ thr[t].pc = "runlock"
    /\ filters' = [filters EXCEPT ![thr[t].f].mu = RUnlock(@, t)]
    /\ thr' = IF thr[t].op = "InsertUnique" /\ ~thr[t].ret
              THEN [thr EXCEPT ![t].pc = "lock", ![t].saw = "absent"]
              ELSE [thr EXCEPT ![t] = Returned(thr[t])]
    /\ UNCHANGED <<tempBuf, nops, seqRest>>

TLock(t) ==
    /\ thr[t].pc = "lock"
    /\ CanLock(filters[thr[t].f].mu)
    /\ filters' = [filters EXCEPT ![thr[t].f].mu = Lock(@, t)]
    /\ thr' = [thr EXCEPT ![t].pc = IF thr[t].op = "Delete" THEN "del" ELSE "begin"]
    /\ UNCHANGED <<tempBuf, nops, seqRest>>

\* insert up to the loop: the direct placement with the deferred count++, or
\* the choice of the first bucket of the loop
TInsert(t) ==
    /\ thr[t].pc = "begin"
    /\ UNCHANGED <<tempBuf, nops, seqRest>>
    /\ \E l \in {Locate(thr[t].x)} :
       \E a1 \in {addToBucket(filters[thr[t].f].buckets[l.i1], l.fp)} :
       \E a2 \in {addToBucket(filters[thr[t].f].buckets[l.i2], l.fp)} :
          IF a1.ok \/ a2.ok
          THEN /\ filters' = [filters EXCEPT
                                ![thr[t].f].buckets =
                                    IF a1.ok THEN [@ EXCEPT ![l.i1] = a1.b]
                                             ELSE [@ EXCEPT ![l.i2] = a2.b],
                                ![thr[t].f].count = U32Inc(@),
                                ![thr[t].f].hash = <<l.fp \div 256, l.fp % 256>>]
               /\ thr' = [thr EXCEPT ![t].pc = "unlock", ![t].ret = TRUE, ![t].fp = l.fp]
          ELSE \E ri \in {l.i1, l.i2} :
               /\ filters' = [filters EXCEPT
                                ![thr[t].f].hash = <<l.fp \div 256, l.fp % 256>>]
               /\ thr' = [thr EXCEPT ![t].pc = "kick", ![t].i = ri, ![t].fp = l.fp,
                                     ![t].k = 0]

\* replaceItem up to binary.BigEndian.PutUint16(tempBytes, uint16(fp))
TSwap(t) ==
    /\ thr[t].pc = "kick"
    /\ kickAgain(thr[t].k)
    /\ UNCHANGED <<nops, seqRest>>
    /\ \E s \in 1 .. bucketSize :
       \E r \in {replaceItem(filters[thr[t].f].buckets, thr[t].i, thr[t].fp, s)} :
          /\ filters' = [filters EXCEPT ![thr[t].f].buckets = r.buckets]
          /\ tempBuf' = r.tempBytes
          /\ thr' = [thr EXCEPT ![t].pc = "kickhash", ![t].rfp = r.rfp]

\* the rest of replaceItem, hashOf(tempBytes, f.hash) and j, then the
\* addToBucket of the iteration
TKickHash(t) ==
    /\ thr[t].pc = "kickhash"
    /\ UNCHANGED <<tempBuf, nops, seqRest>>
    /\ \E j \in {alternateOf(thr[t].i, tempBuf)} :
       \E a \in {addToBucket(filters[thr[t].f].buckets[j], thr[t].rfp)} :
          IF a.ok
          THEN /\ filters' = [filters EXCEPT ![thr[t].f].buckets[j] = a.b,
                                             ![thr[t].f].count = U32Inc(@),
                                             ![thr[t].f].hash = tempBuf]
               /\ thr' = [thr EXCEPT ![t].pc = "unlock", ![t].ret = TRUE,
                                     ![t].i = j, ![t].fp = thr[t].rfp,
                                     ![t].k = thr[t].k + 1]
          ELSE /\ filters' = [filters EXCEPT ![thr[t].f].hash = tempBuf]
               /\ thr' = [thr EXCEPT ![t].pc = "kick", ![t].i = j, ![t].fp = thr[t].rfp,
                                     ![t].k = thr[t].k + 1]

\* the loop is over: return false
TGiveUp(t) ==
    /\ thr[t].pc = "kick"
    /\ ~kickAgain(thr[t].k)
    /\ thr' = [thr EXCEPT ![t].pc = "unlock", ![t].ret = FALSE]
    /\ UNCHANGED <<filters, tempBuf, nops, seqRest>>

TDelete(t) ==
    /\ thr[t].pc = "del"
    /\ UNCHANGED <<tempBuf, nops, seqRest>>
    /\ \E l \in {Locate(thr[t].x)} :
       \E bk \in {filters[thr[t].f].buckets} :
       \E d \in {deleteItem(bk, filters[thr[t].f].count, thr[t].x)} :
          /\ filters' = [filters EXCEPT
                            ![thr[t].f].buckets = d.buckets,
                            ![thr[t].f].count = d.count,
                            ![thr[t].f].hash = <<l.fp \div 256, l.fp % 256>>]
          /\ thr' = [thr EXCEPT ![t].pc = "unlock", ![t].ret = d.ok]

\* the deferred f.mu.Unlock(), and the return
TUnlock(t) ==
    /\ thr[t].pc = "unlock"
    /\ filters' = [filters EXCEPT ![thr[t].f].mu = Unlock(@, t)]
    /\ thr' = [thr EXCEPT ![t] = Returned(thr[t])]
    /\ UNCHANGED <<tempBuf, nops, seqRest>>

\* a step of thread t inside a call, lookup taken as one step
Step(t) ==
    \/ TRLock(t) \/ TRead(t) \/ TLookup(t) \/ TRUnlock(t) \/ TLock(t) \/ TInsert(t)
    \/ TSwap(t) \/ TKickHash(t) \/ TGiveUp(t) \/ TDelete(t) \/ TUnlock(t)

(***************************************************************************)
(* Threads on one filter: at most MaxOps calls of any operation on filter  *)
(* 1.  Every thread inside a call keeps running.  (SpecLive below is the   *)
(* same with at most LiveOps calls, on one item.)                          *)
(***************************************************************************)
NextConc ==
    \/ \E t \in Threads : \E op \in Ops : \E x \in ConcItems :
          nops < MaxOps /\ nops' = nops + 1 /\ Begin(t, 1, op, x)
    \/ \E t \in Threads : TRLock(t)
    \/ \E t \in Threads : TRead(t)
    \/ \E t \in Threads : TLookup(t)
    \/ \E t \in Threads : TRUnlock(t)
    \/ \E t \in Threads : TLock(t)
    \/ \E t \in Threads : TInsert(t)
    \/ \E t \in Threads : TSwap(t)
    \/ \E t \in Threads : TKickHash(t)
    \/ \E t \in Threads : TGiveUp(t)
    \/ \E t \in Threads : TDelete(t)
    \/ \E t \in Threads : TUnlock(t)

SpecConc == Init /\ [][NextConc]_vars /\ \A t \in Threads : WF_vars(Step(t))

LiveOps == 4

LiveItems == {ItemG}

NextLive ==
    \/ \E t \in Threads : \E op \in Ops : \E x \in LiveItems :
          nops < LiveOps /\ nops' = nops + 1 /\ Begin(t, 1, op, x)
    \/ \E t \in Threads : TRLock(t)
    \/ \E t \in Threads : TRead(t)
    \/ \E t \in Threads : TLookup(t)
    \/ \E t \in Threads : TRUnlock(t)
    \/ \E t \in Threads : TLock(t)
    \/ \E t \in Threads : TInsert(t)
    \/ \E t \in Threads : TSwap(t)
    \/ \E t \in Threads : TKickHash(t)
    \/ \E t \in Threads : TGiveUp(t)
    \/ \E t \in Threads : TDelete(t)
    \/ \E t \in Threads : TUnlock(t)

SpecLive == Init /\ [][NextLive]_vars /\ \A t \in Threads : WF_vars(Step(t))

(***************************************************************************)
(* Readers on one filter, lookup taken one access to the hash instance per *)
(* step: at most MaxOps calls of Insert and Lookup on filter 1.            *)
(***************************************************************************)
ReaderItems == {ItemG}

StepReaders(t) ==
    \/ TRLock(t) \/ THashReset(t) \/ THashWrite(t) \/ THashSum(t) \/ TScan(t)
    \/ TRUnlock(t) \/ TLock(t) \/ TInsert(t) \/ TSwap(t) \/ TKickHash(t)
    \/ TGiveUp(t) \/ TUnlock(t)

NextReaders ==
    \/ \E t \in Threads : \E op \in {"Insert", "Lookup"} : \E x \in ReaderItems :
          nops < MaxOps /\ nops' = nops + 1 /\ Begin(t, 1, op, x)
    \/ \E t \in Threads : TRLock(t)
    \/ \E t \in Threads : THashReset(t)
    \/ \E t \in Threads : THashWrite(t)
    \/ \E t \in Threads : THashSum(t)
    \/ \E t \in Threads : TScan(t)
    \/ \E t \in Threads : TRUnlock(t)
    \/ \E t \in Threads : TLock(t)
    \/ \E t \in Threads : TInsert(t)
    \/ \E t \in Threads : TSwap(t)
    \/ \E t \in Threads : TKickHash(t)
    \/ \E t \in Threads : TGiveUp(t)
    \/ \E t \in Threads : TUnlock(t)

SpecReaders ==
    Init /\ [][NextReaders]_vars /\ \A t \in Threads : WF_vars(StepReaders(t))

(***************************************************************************)
(* Two filters: thread t makes at most TwoOps calls in all of Insert on    *)
(* filter t, which no other thread uses.                                   *)
(***************************************************************************)
TwoOps == 6

TwoItems == {ItemG, ItemAB}

StepTwo(t) ==
    \/ TLock(t) \/ TInsert(t) \/ TSwap(t) \/ TKickHash(t) \/ TGiveUp(t) \/ TUnlock(t)

NextTwo ==
    \/ \E t \in Threads : \E x \in TwoItems :
          nops < TwoOps /\ nops' = nops + 1 /\ Begin(t, t, "Insert", x)
    \/ \E t \in Threads : TLock(t)
    \/ \E t \in Threads : TInsert(t)
    \/ \E t \in Threads : TSwap(t)
    \/ \E t \in Threads : TKickHash(t)
    \/ \E t \in Threads : TGiveUp(t)
    \/ \E t \in Threads : TUnlock(t)

SpecTwo == Init /\ [][NextTwo]_vars /\ \A t \in Threads : WF_vars(StepTwo(t))

(***************************************************************************)
(* NewFilter(v).                                                           *)
(***************************************************************************)
NewFilter(v) ==
    /\ ~made.called
    /\ made' = [called |-> TRUE, v |-> v, n |-> nextPowerOf2(v),
                totalBuckets |-> U32Div(nextPowerOf2(v), defaultBucketSize),
                bucketSize |-> defaultBucketSize]
    /\ UNCHANGED <<buckets, count, last, nops, hist, run, filters, tempBuf, thr>>

NextSizing == \E v \in Requests : NewFilter(v)

SpecSizing == Init /\ [][NextSizing]_vars

(***************************************************************************)
(* The runs of one thread that use only items with a non-zero fingerprint. *)
(***************************************************************************)
ItemsNZ == {x \in Items : check(x).ok /\ Locate(check(x).x).fp # emptyFingerprint}

NextNZ ==
    \/ \E x \in ItemsNZ : Insert(x)
    \/ \E x \in ItemsNZ : InsertUnique(x)
    \/ \E x \in ItemsNZ : Delete(x)

SpecNZ == Init /\ [][NextNZ]_vars

----------------------------------------------------------------------------
(***************************************************************************)
(* Helpers of the properties.                                              *)
(***************************************************************************)
\* the last call was op on a non-empty item
Did(op) == last.op = op /\ check(last.x).ok

\* the step is a call of op
Calls(op) == nops' = nops + 1 /\ last'.op = op

\* both candidate buckets of the checked item x are full in table bk
BothFull(bk, x) ==
    /\ ~addToBucket(bk[Locate(x).i1], Locate(x).fp).ok
    /\ ~addToBucket(bk[Locate(x).i2], Locate(x).fp).ok

\* the number of slots of bk that hold v
Copies(bk, v) ==
    Cardinality({p \in (DOMAIN bk) \X (1 .. bucketSize) : bk[p[1]][p[2]] = v})

SlotValues(bk) == {bk[i][j] : i \in DOMAIN bk, j \in 1 .. bucketSize}

\* the multiset of the slots of bk2 plus out is that of bk1 plus in
Exchanged(bk1, in, bk2, out) ==
    \A v \in SlotValues(bk1) \cup SlotValues(bk2) \cup {in, out} :
        Copies(bk2, v) + (IF v = out THEN 1 ELSE 0)
            = Copies(bk1, v) + (IF v = in THEN 1 ELSE 0)

\* no item passed to an insertion other than x has x's fingerprint and a
\* candidate bucket of x
Alone(x) ==
    \A y \in ever \ {x} :
        \/ Locate(y).fp # Locate(x).fp
        \/ {Locate(y).i1, Locate(y).i2} \cap {Locate(x).i1, Locate(x).i2} = {}

(***************************************************************************)
(* C1.  In a run that holds only Insert calls that returned true, every    *)
(* item inserted is found by Lookup in every later state.                  *)
(***************************************************************************)
C1_NoFalseNegative == pure => \A x \in ever : lookup(buckets, x)

(***************************************************************************)
(* C2.  When Insert(x) returns true, a Lookup(x) issued right after it     *)
(* returns true, whether x was placed directly or after evictions.         *)
(***************************************************************************)
C2_NoImmediateFalseNegative ==
    (Did("Insert") /\ last.ret) => lookup(buckets, check(last.x).x)

(***************************************************************************)
(* C3.  Consecutive InsertUnique(x) calls of one thread raise Count() by   *)
(* at most 1 in total.                                                     *)
(***************************************************************************)
C3_InsertUniqueIdempotent ==
    uniq # NoRun => count \in {uniq.base, U32Inc(uniq.base)}

(***************************************************************************)
(* C4.  In every reachable state count <= bucketSize * totalBuckets, so    *)
(* LoadFactor() lies in [0, 1].                                            *)
(***************************************************************************)
C4_CountBound == U32LeqNat(LoadFactor.num, LoadFactor.den)

(***************************************************************************)
(* C5.  For a non-empty item never inserted, Lookup returns false, Delete  *)
(* returns false and Delete leaves count and every slot unchanged.         *)
(***************************************************************************)
C5_NotFound ==
    [][\A op \in {"Lookup", "Delete"} :
          (Calls(op) /\ check(last'.x).ok /\ check(last'.x).x \notin ever)
              => (~last'.ret /\ UNCHANGED <<buckets, count>>)]_vars

(***************************************************************************)
(* C6.  After N successful insertions and M successful deletes and no      *)
(* failed call, Count() = N - M; a failed Insert, a failed Delete, a       *)
(* Lookup and an InsertUnique that found its item leave count unchanged.   *)
(***************************************************************************)
C6_CounterConsistency ==
    /\ [](~failed => (nIns >= nDel /\ count = U32Of(nIns - nDel)))
    /\ [][(/\ nops' = nops + 1
           /\ \/ last'.op = "Lookup"
              \/ ~last'.ret
              \/ last'.op = "InsertUnique" /\ last'.lock = {"r"})
              => count' = count]_vars

(***************************************************************************)
(* C7.  After two successful Insert(x) in a row, a first Delete(x) returns *)
(* true and leaves Lookup(x) true, and a second Delete(x) returns true and *)
(* leaves Lookup(x) false, when no other inserted item shares x's          *)
(* fingerprint and candidate buckets.                                      *)
(***************************************************************************)
C7_DeleteOneOccurrence ==
    /\ (twice.n = 3 /\ Alone(twice.x)) => (last.ret /\ lookup(buckets, twice.x))
    /\ (twice.n = 4 /\ Alone(twice.x)) => (last.ret /\ ~lookup(buckets, twice.x))

(***************************************************************************)
(* C8.  Insert, InsertUnique, Lookup and Delete of the empty item return   *)
(* false, acquire no lock and leave count and every slot unchanged.        *)
(***************************************************************************)
C8_EmptyRejected ==
    [][(nops' = nops + 1 /\ Len(last'.x) = 0)
          => (~last'.ret /\ last'.lock = {} /\ UNCHANGED <<buckets, count>>)]_vars

C8_Witness ==
    /\ last.op = "Insert" /\ Len(last.x) = 0 /\ ~last.ret
    /\ count = U32Of(2)
    /\ \E i \in DOMAIN buckets : buckets[i][1] # emptyFingerprint

(***************************************************************************)
(* C9.  When the eviction loop of Insert makes maxKicks swaps without a    *)
(* placement, Insert returns false, count is unchanged and the multiset of *)
(* the slots afterwards is the one before plus the incoming fingerprint    *)
(* minus the fingerprint evicted by the last swap.  (As claimed, with the  *)
(* table always modified: C9_ExhaustionModifies.)                          *)
(***************************************************************************)
Exhausted ==
    /\ Calls("Insert") /\ check(last'.x).ok
    /\ BothFull(buckets, check(last'.x).x)
    /\ last'.swaps = maxKicks /\ ~last'.placed

C9_Exhaustion ==
    [][Exhausted
          => /\ ~last'.ret
             /\ count' = count
             /\ Exchanged(buckets, Locate(check(last'.x).x).fp, buckets', last'.hand)]_vars

C9_ExhaustionModifies ==
    [][Exhausted
          => /\ ~last'.ret
             /\ count' = count
             /\ buckets' # buckets
             /\ Exchanged(buckets, Locate(check(last'.x).x).fp, buckets', last'.hand)]_vars

C9_Witness ==
    /\ Did("Insert") /\ ~last.ret /\ last.swaps = maxKicks
    /\ last.hand # Locate(check(last.x).x).fp

(***************************************************************************)
(* C10.  Every Insert call returns; it makes at most maxKicks swaps, and   *)
(* it enters the loop of swaps only when both candidate buckets of its     *)
(* item are full.                                                          *)
(***************************************************************************)
C10_BoundedWork ==
    /\ [](run.k <= maxKicks /\ last.swaps <= maxKicks)
    /\ [][(run.pc = "idle" /\ run'.pc = "loop") => BothFull(buckets, run'.x)]_vars
    /\ (run.pc = "loop") ~> (run.pc = "idle")

C10_Witness ==
    /\ run.pc = "loop" /\ run.k = maxKicks
    /\ run.fp # Locate(run.x).fp

(***************************************************************************)
(* Helpers of the properties on fingerprints and occupancy.                *)
(***************************************************************************)
\* the two bytes of the fingerprint v, big-endian
BytesOf(v) == <<v \div 256, v % 256>>

\* the bucket paired with bucket i by the hash of the fingerprint v
AltIndex(i, v) == U32Mod(U32Xor(U32Of(i), Murmur3(BytesOf(v))), totalBuckets)

\* bucket i is a candidate bucket of an item with fingerprint v
CandidateOf(i, v) ==
    \E x \in Items :
        /\ check(x).ok
        /\ Locate(check(x).x).fp = v
        /\ i \in {Locate(check(x).x).i1, Locate(check(x).x).i2}

\* the number of occupied slots of bk
Occupied(bk) == bucketSize * Cardinality(DOMAIN bk) - Copies(bk, emptyFingerprint)

\* the step ends a call of Insert, taken step by step
InsertReturns ==
    \/ run.pc = "idle" /\ run'.pc = "idle" /\ nops' = nops + 1 /\ last'.op = "Insert"
    \/ run.pc = "loop" /\ run'.pc = "idle"

\* the threads inside a critical section of filter f under the write lock,
\* and those inside one under the read lock
Writing(f) ==
    {t \in Threads : thr[t].f = f
                      /\ thr[t].pc \in {"begin", "kick", "kickhash", "del", "unlock"}}

Reading(f) ==
    {t \in Threads : thr[t].f = f
                      /\ thr[t].pc \in {"read", "look", "write1", "sum1", "reset2",
                                         "write2", "sum2", "scan", "runlock"}}

(***************************************************************************)
(* C11.  At most one thread is inside the critical section of Insert, of   *)
(* the write phase of InsertUnique or of Delete, and then no thread is     *)
(* inside that of Lookup, Count or LoadFactor; in particular none is while *)
(* a thread is between two swaps of the loop of insert.                    *)
(***************************************************************************)
C11_LockDiscipline ==
    \A f \in Filters :
        /\ Cardinality(Writing(f)) <= 1
        /\ Writing(f) # {} => Reading(f) = {}
        /\ (\E t \in Threads : thr[t].f = f /\ thr[t].pc \in {"kick", "kickhash"})
              => Reading(f) = {}

\* a thread waits for the read lock while another is in the middle of the
\* loop, an evicted fingerprint in hand
C11_Witness ==
    \E t \in Threads : \E u \in Threads :
        /\ thr[t].pc = "kickhash" /\ thr[t].k > 0
        /\ thr[u].pc = "rlock" /\ thr[u].op = "Lookup"

(***************************************************************************)
(* C12.  InsertUnique releases the lock between its Lookup and its insert: *)
(* a thread that is about to take the write lock in InsertUnique holds the *)
(* mutex in no mode.  When the only two calls made are InsertUnique(x) by  *)
(* two threads that both found x absent and both inserted, the table holds *)
(* two slots with the fingerprint of x and count is 2.                     *)
(***************************************************************************)
BothInserted(x) ==
    \A t \in Threads :
        /\ thr[t].pc = "idle" /\ thr[t].op = "InsertUnique" /\ thr[t].x = x
        /\ thr[t].saw = "absent" /\ thr[t].ret

C12_NotAtomic ==
    /\ \A t \in Threads :
          (thr[t].op = "InsertUnique" /\ thr[t].pc = "lock")
              => /\ thr[t].saw = "absent"
                 /\ filters[thr[t].f].mu.w # t
                 /\ t \notin filters[thr[t].f].mu.r
    /\ \A x \in {check(y).x : y \in {z \in ConcItems : check(z).ok}} :
          (nops = Cardinality(Threads) /\ BothInserted(x))
              => /\ Copies(filters[1].buckets, Locate(x).fp) = Cardinality(Threads)
                 /\ filters[1].count = U32Of(Cardinality(Threads))

C12_Witness ==
    /\ nops = Cardinality(Threads)
    /\ BothInserted(check(ItemG).x)
    /\ filters[1].count = U32Of(2)

(***************************************************************************)
(* C17.  A Lookup under the read lock returns what lookup returns on the   *)
(* table, whatever other Lookup calls run at the same time (no writer is   *)
(* inside then, so the table is the same during the whole call).           *)
(***************************************************************************)
C17_ReadersAlone ==
    [][\A t \in Threads :
          (thr[t].pc = "scan" /\ thr'[t].pc = "runlock")
              => thr'[t].ret = lookup(filters[thr[t].f].buckets, thr[t].x)]_vars

(***************************************************************************)
(* C19.  Two filters do not affect each other: the index that the eviction *)
(* step of a thread computes is the one paired with its bucket by the hash *)
(* of the fingerprint it wrote to tempBytes, whatever a thread does on the *)
(* other filter.                                                           *)
(***************************************************************************)
C19_FiltersIndependent ==
    [][\A t \in Threads :
          (thr[t].pc = "kickhash" /\ thr'[t].pc # "kickhash")
              => thr'[t].i = alternateOf(thr[t].i, <<thr[t].fp \div 256, thr[t].fp % 256>>)]_vars

(***************************************************************************)
(* C20.  No thread requests the lock of a filter while it holds it; the    *)
(* loop of a writer makes at most maxKicks swaps; a lock that is held is   *)
(* released, and every call returns.                                       *)
(***************************************************************************)
C20_LockLiveness ==
    /\ [](\A t \in Threads :
            /\ thr[t].pc \in {"rlock", "lock"}
                  => (filters[thr[t].f].mu.w # t /\ t \notin filters[thr[t].f].mu.r)
            /\ thr[t].k <= maxKicks)
    /\ \A f \in Filters :
          (filters[f].mu # [w |-> None, r |-> {}]) ~> (filters[f].mu = [w |-> None, r |-> {}])
    /\ \A t \in Threads : (thr[t].pc # "idle") ~> (thr[t].pc = "idle")

\* a thread waits for the write lock while the other, the last swap of its
\* loop made, still holds it
C20_Witness ==
    \E t \in Threads : \E u \in Threads :
        /\ thr[t].pc = "unlock" /\ thr[t].op = "Insert" /\ ~thr[t].ret
        /\ thr[t].k = maxKicks
        /\ thr[u].pc = "lock" /\ thr[u].op = "InsertUnique"

(***************************************************************************)
(* C13.  Every iteration of the loop of insert next tries the evicted      *)
(* fingerprint in bucket (victim bucket XOR hash of the evicted            *)
(* fingerprint's two bytes) mod totalBuckets, and every fingerprint stored *)
(* lies in a candidate bucket of an item with that fingerprint.            *)
(***************************************************************************)
C13_EvictedOwnHash ==
    /\ [][(run.pc = "loop" /\ run'.pc = "loop") => run'.ri = AltIndex(run.ri, run'.fp)]_vars
    /\ [](\A i \in DOMAIN buckets : \A j \in 1 .. bucketSize :
            buckets[i][j] # emptyFingerprint => CandidateOf(i, buckets[i][j]))

(***************************************************************************)
(* C14.  The number of occupied slots grows by 1 in an Insert that returns *)
(* true, shrinks by 1 in a Delete that returns true, and is unchanged by   *)
(* every other step: Lookup, a call that returns false and a swap of the   *)
(* loop that does not end the call.                                        *)
(***************************************************************************)
C14_OccupancyOnSuccess ==
    [][Occupied(buckets') - Occupied(buckets) =
          IF InsertReturns /\ last'.ret THEN 1
          ELSE IF Calls("Delete") /\ last'.ret THEN 0 - 1
          ELSE 0]_vars

(***************************************************************************)
(* C15.  The fingerprint and the candidate buckets that Insert, Lookup and *)
(* Delete use for a checked item x.  UsesKey(fp, i1, i2) says that the     *)
(* step is a call that works on fingerprint fp in buckets i1 and i2: a     *)
(* direct Insert fills an empty slot of one of them with fp, Lookup tells  *)
(* whether one of them holds fp, and a Delete that returns true clears a   *)
(* slot of one of them that holds fp.                                      *)
(***************************************************************************)
UsesKey(fp, i1, i2) ==
    /\ (Calls("Insert") /\ last'.placed /\ last'.swaps = 0)
          => \E b \in {i1, i2} : \E s \in 1 .. bucketSize :
                /\ buckets[b][s] = emptyFingerprint
                /\ buckets' = [buckets EXCEPT ![b][s] = fp]
    /\ Calls("Lookup")
          => (last'.ret <=> \E b \in {i1, i2} : \E s \in 1 .. bucketSize : buckets[b][s] = fp)
    /\ (Calls("Delete") /\ last'.ret)
          => \E b \in {i1, i2} : \E s \in 1 .. bucketSize :
                /\ buckets[b][s] = fp
                /\ buckets' = [buckets EXCEPT ![b][s] = emptyFingerprint]

\* as claimed: fp is the value of the first two bytes of x itself
C15_FingerprintOfItem ==
    [][(nops' = nops + 1 /\ check(last'.x).ok)
          => LET x == check(last'.x).x
                 fp == x[1] * 256 + x[2]
                 fph == Murmur3(SubSeq(x, 1, 2))
                 i1 == U32Mod(Murmur3(x), totalBuckets)
                 i2 == U32Mod(U32Xor(U32Of(i1), fph), totalBuckets)
             IN  UsesKey(fp, i1, i2)]_vars

\* as the code has it: fp is the upper 16 bits of the digest of x
C15_FingerprintOfDigest ==
    [][(nops' = nops + 1 /\ check(last'.x).ok)
          => LET x == check(last'.x).x
                 fp == Murmur3(x).hi
                 fph == Murmur3(BytesOf(fp))
                 i1 == U32Mod(Murmur3(x), totalBuckets)
                 i2 == U32Mod(U32Xor(U32Of(i1), fph), totalBuckets)
             IN  UsesKey(fp, i1, i2)]_vars

C15_Witness ==
    /\ Did("Delete") /\ last.ret /\ last.x = ItemG
    /\ \E i \in DOMAIN buckets : containsIn(buckets[i], Murmur3(ItemAB).hi)

(***************************************************************************)
(* C16.  For every requested count v, nextPowerOf2(v) is a power of two    *)
(* n >= v and NewFilter(v) makes totalBuckets = n / 4 >= 1 buckets of 4    *)
(* slots, so that bucketSize * totalBuckets >= v.                          *)
(***************************************************************************)
C16_CapacitySizing ==
    made.called =>
        /\ \E i \in 0 .. 31 : made.n = U32Shl1(i)
        /\ U32Geq(made.n, made.v)
        /\ made.totalBuckets = U32Div(made.n, 4)
        /\ U32Geq(made.totalBuckets, U32Of(1))
        /\ \E i \in 0 .. 31 :
              /\ made.totalBuckets = U32Shl1(i)
              /\ U32Geq(U32Shl1(i + 2), made.v)

(***************************************************************************)
(* C18.  In the runs of one thread that use only items with a non-zero     *)
(* fingerprint, count is the number of occupied slots in every state.      *)
(***************************************************************************)
C18_CountIsOccupancy == count = U32Of(Occupied(buckets))

C18_Witness ==
    /\ Did("Insert") /\ ~last.ret /\ last.swaps = maxKicks
    /\ last.hand # Locate(check(last.x).x).fp
    /\ Occupied(buckets) = 2 /\ count = U32Of(2)

=============================================================================
